---------------------------- MODULE Spec2Model ----------------------------
(***************************************************************************)
(* Model of main_model.py: create_model builds the chains and restraints,  *)
(* start_bd_simulation configures the Brownian-dynamics integrator and     *)
(* create_trajectory_file drives the outer sampling loop and writes the    *)
(* statistics pickles.                                                     *)
(*                                                                         *)
(* The external modelling library is represented by what its calls leave   *)
(* behind: the integrator's clock, the particles of the model, the frames  *)
(* of the trajectory file.  A measured quantity (score, distance,          *)
(* coordinates) is the symbolic value "the quantity of these particles at  *)
(* integrator time t".                                                     *)
(***************************************************************************)
EXTENDS Integers, Sequences, FiniteSets, TLC

\* ------------------------------------------------------------------ bounds
\* Largest nchains and largest number of beads per chain that are explored.
MaxChains == 2
MaxBeads == 2
\* n_outer is 50000 in the source (line 135); the model runs the same loop
\* with this many outer iterations.  It must be at least 10, as in the source
\* n_outer // 10 is used as a modulus.
n_outer == 40

\* ------------------------------------------------------- program constants
bd_step_size_fs == 1000
n_inner == 250
frames_interval == 10000
FsPerNs == 1000000

\* k_out and sphere_radius are floats; they are kept in fixed point with
\* four decimals (10001 is 1.0001, 500006 is 50.0006).
KoutVals == {10001, 10004}
SphereVals == {500000, 500006}

VARIABLES
    pc,             \* position in create_model / create_trajectory_file
    args,           \* arguments of the current create_model call
    lib_resets,     \* whether the library's optimizer state restarts its
                    \* call counter at every optimize() (library-defined)
    m,              \* number of particles created in the IMP model
    chains,         \* list of chains built so far
    h_root,         \* children of the root hierarchy (chain roots)
    evr,            \* the excluded-volume restraint, or NoneVal
    restraints,     \* the restraint list of create_model
    rsf,            \* restraints held by the scoring function, or NoneVal
    bd,             \* the integrator
    rmf,            \* the trajectory file
    sos,            \* the save-optimizer-state
    it,             \* next value of the range(n_outer) iterator
    i,              \* the Python variable i
    time_ns,        \* the Python variable time_ns
    T_ns, E, D, chains_on_iteration,   \* the collected series
    stdout,         \* printed lines
    pickles,        \* pickle files written by this call, in order
    failed,         \* a library call of this run has raised
    prev            \* what the previous completed call wrote, or NoneVal

vars == <<pc, args, lib_resets, m, chains, h_root, evr, restraints, rsf, bd,
          rmf, sos, it, i, time_ns, T_ns, E, D, chains_on_iteration, stdout,
          pickles, failed, prev>>

NoneVal == [none |-> TRUE]

\* ---------------------------------------------------------------- helpers
RECURSIVE SeqOfSet(_)
SeqOfSet(S) ==
    IF S = {} THEN <<>>
    ELSE LET x == CHOOSE y \in S : TRUE IN <<x>> \o SeqOfSet(S \ {x})

RECURSIVE Flatten(_)
Flatten(ss) ==
    IF ss = <<>> THEN <<>> ELSE Head(ss) \o Flatten(Tail(ss))

Range(s) == {s[k] : k \in 1..Len(s)}

Count(s, x) == Cardinality({k \in 1..Len(s) : s[k] = x})

DigitChar(d) ==
    CASE d = 0 -> "0" [] d = 1 -> "1" [] d = 2 -> "2" [] d = 3 -> "3"
      [] d = 4 -> "4" [] d = 5 -> "5" [] d = 6 -> "6" [] d = 7 -> "7"
      [] d = 8 -> "8" [] d = 9 -> "9"

RECURSIVE NatStr(_)
NatStr(n) ==
    IF n < 10 THEN DigitChar(n) ELSE NatStr(n \div 10) \o DigitChar(n % 10)

\* n written with exactly w digits (leading zeros)
RECURSIVE PadStr(_, _)
PadStr(n, w) ==
    IF w = 0 THEN "" ELSE PadStr(n \div 10, w - 1) \o DigitChar(n % 10)

\* x / unit rounded to the nearest integer, ties to even (printf rounding of
\* an exactly representable value)
RoundHalfEven(x, unit) ==
    LET q == x \div unit
        r == x % unit
    IN  IF 2 * r > unit \/ (2 * r = unit /\ q % 2 = 1) THEN q + 1 ELSE q

\* ------------------------------------------------------------- formatting
\* f'{x:.3f}' of a non-negative x held with four decimals
Fmt4(x) == NatStr(x \div 10000) \o "." \o PadStr(x % 10000, 4)

Fmt3(x) ==
    LET t == RoundHalfEven(x, 10)
    IN  NatStr(t \div 1000) \o "." \o PadStr(t % 1000, 3)

\* time_fs * 1e-6: nanoseconds as whole part and millionths
NsOfFs(t) == [whole |-> t \div FsPerNs, micro |-> t % FsPerNs]

\* f'{time_ns:.1f}'
Fmt1(ns) ==
    LET t == RoundHalfEven(ns.whole * FsPerNs + ns.micro, FsPerNs \div 10)
    IN  NatStr(t \div 10) \o "." \o DigitChar(t % 10)

\* os.path.join(save_path, file_name + ".pkl")
PicklePath(save_path, file_name) == save_path \o "/" \o file_name \o ".pkl"

\* the four create_pickle_from_array calls, in source order
PickleKinds == <<"T_ns_", "Energy_", "Distance-e-to-e_", "chain_on_iterations_">>

PickleFileNameFull(kind, k_out, sphere_radius) ==
    kind \o "kout_" \o Fmt4(k_out) \o "_" \o "spr_rad_" \o Fmt4(sphere_radius)

PickleFileName(kind, k_out, sphere_radius) ==
    LET kout == Fmt3(k_out)
        spr_rad == Fmt3(sphere_radius)
    IN  kind \o "kout_" \o kout \o "_" \o "spr_rad_" \o spr_rad

\* ------------------------------------------------- chains and restraints
\* ProteinChainFactory.create: a chain of fresh particles of model m, a root
\* and nbeads beads, with its own connectivity restraint.
FactoryCreate(label, first, nbeads) ==
    LET beads == [k \in 1..nbeads |-> first + k]
    IN  [label |-> label, root_as_h |-> first, beads |-> beads,
         restraint |-> [kind |-> "connectivity", chains |-> <<label>>,
                        particles |-> beads]]

get_interchain_restraint(chain0, chain1) ==
    [kind |-> "interchain", chains |-> <<chain0.label, chain1.label>>,
     particles |-> chain0.beads \o chain1.beads]

get_bounding_sphere_restraint(beads) ==
    [kind |-> "bounding-sphere", chains |-> <<>>, particles |-> beads]

ExcludedVolumeRestraint(beads) ==
    [kind |-> "excluded-volume", chains |-> <<>>, particles |-> beads]

get_first_chain_beads(chs) ==
    IF chs = <<>> THEN <<>> ELSE SeqOfSet(Range(chs[1].beads))

\* list(set().union(*[chain.beads for chain in chains])); the order of a
\* set's elements is whatever the set gives
get_all_beads(chs) ==
    SeqOfSet(UNION {Range(chs[c].beads) : c \in 1..Len(chs)})

ChainsOrdered(c0, c1) == c0 < c1

\* chain0 != chain1 for the chains at positions c0, c1 of the list
ChainsDiffer(c0, c1) == c0 # c1

\* the nested loops over chains x chains, iteration k of n*n
RECURSIVE InterchainFrom(_, _)
InterchainFrom(k, chs) ==
    LET n == Len(chs)
        c0 == (k \div n) + 1
        c1 == (k % n) + 1
    IN  IF k >= n * n THEN <<>>
        ELSE (IF ChainsDiffer(c0, c1)
              THEN <<get_interchain_restraint(chs[c0], chs[c1])>>
              ELSE <<>>) \o InterchainFrom(k + 1, chs)

AssembledRestraints(chs, evr_) ==
    [c \in 1..Len(chs) |-> chs[c].restraint] \o <<evr_>>
      \o InterchainFrom(0, chs)
      \o <<get_bounding_sphere_restraint(get_all_beads(chs))>>

ChainsBuiltEarly(chs, n) == Len(chs) >= 1

\* range(nchains) is exhausted
ChainsBuilt(chs, n) == Len(chs) >= n

\* ------------------------------------------------------------- sampling
\* IMP.core.XYZ(bead).get_coordinates() at integrator time t
XYZ(bead, t) == [bead |-> bead, at |-> t]

\* IMP.core.get_distance(XYZ(chain.beads[0]), XYZ(chain.beads[-1]))
get_distance(chain, t) ==
    [first |-> chain.beads[1], last |-> chain.beads[Len(chain.beads)],
     at |-> t]

\* bd.get_last_score()
get_last_score(bd_) == [at |-> bd_.last_score_at]

\* vecs_of_beads is one list object, created once before the loops and
\* appended to for every bead of every chain; vecs_of_chains receives a
\* reference to that same object once per chain.
generate_vecs_of_beads(chs, t) ==
    LET vecs_of_beads ==
            Flatten([c \in 1..Len(chs) |->
                       [j \in 1..Len(chs[c].beads) |-> XYZ(chs[c].beads[j], t)]])
    IN  [c \in 1..Len(chs) |-> vecs_of_beads]

\* for i, chain in enumerate(chains): D[i].append(distance), from index idx
RECURSIVE AppendDistances(_, _, _, _)
AppendDistances(D_, chs, idx, t) ==
    IF idx >= Len(chs) THEN D_
    ELSE AppendDistances(
             [D_ EXCEPT ![idx + 1] = Append(@, get_distance(chs[idx + 1], t))],
             chs, idx + 1, t)

LoopValueFromI(it_, i_) == i_ + 1

\* the value range(n_outer) hands to the loop: the iterator's own position,
\* whatever was assigned to i in the body
LoopValue(it_, i_) == it_

OnFailureRetry(step) == step

\* a raising library call: there is no try/except anywhere, so control
\* leaves create_trajectory_file and create_model
OnFailure(step) == "raised"

\* --------------------------------------------------------------- actions
Args == [seq_beads : 1..MaxBeads, nchains : 0..MaxChains,
         k_out : KoutVals, sphere_radius : SphereVals]

Fresh(a) ==
    /\ pc' = "create_chains"
    /\ args' = a
    /\ m' = 0
    /\ chains' = <<>>
    /\ h_root' = NoneVal
    /\ evr' = NoneVal
    /\ restraints' = <<>>
    /\ rsf' = NoneVal
    /\ bd' = NoneVal
    /\ rmf' = NoneVal
    /\ sos' = NoneVal
    /\ it' = 0
    /\ i' = -1
    /\ time_ns' = NoneVal
    /\ T_ns' = <<>>
    /\ E' = <<>>
    /\ D' = <<>>
    /\ chains_on_iteration' = <<>>
    /\ stdout' = <<>>
    /\ pickles' = <<>>
    /\ failed' = FALSE

Init ==
    /\ pc = "create_chains"
    /\ args \in Args
    /\ lib_resets \in BOOLEAN
    /\ m = 0
    /\ chains = <<>>
    /\ h_root = NoneVal
    /\ evr = NoneVal
    /\ restraints = <<>>
    /\ rsf = NoneVal
    /\ bd = NoneVal
    /\ rmf = NoneVal
    /\ sos = NoneVal
    /\ it = 0
    /\ i = -1
    /\ time_ns = NoneVal
    /\ T_ns = <<>>
    /\ E = <<>>
    /\ D = <<>>
    /\ chains_on_iteration = <<>>
    /\ stdout = <<>>
    /\ pickles = <<>>
    /\ failed = FALSE
    /\ prev = NoneVal

\* lines 35-37: one iteration of the chain-building loop
CreateChain ==
    /\ pc = "create_chains"
    /\ ~ChainsBuilt(chains, args.nchains)
    /\ chains' = Append(chains, FactoryCreate(Len(chains), m + 1, args.seq_beads))
    /\ m' = m + 1 + args.seq_beads
    /\ UNCHANGED <<pc, args, lib_resets, h_root, evr, restraints, rsf, bd,
                   rmf, sos, it, i, time_ns, T_ns, E, D, chains_on_iteration,
                   stdout, pickles, failed, prev>>

\* lines 44-47: the root particle and the chains as its children
SetupHierarchy ==
    /\ pc = "create_chains"
    /\ ChainsBuilt(chains, args.nchains)
    /\ m' = m + 1
    /\ h_root' = [particle |-> m + 1,
                  children |-> [c \in 1..Len(chains) |-> chains[c].root_as_h]]
    /\ pc' = "evr"
    /\ UNCHANGED <<args, lib_resets, chains, evr, restraints, rsf, bd, rmf,
                   sos, it, i, time_ns, T_ns, E, D, chains_on_iteration,
                   stdout, pickles, failed, prev>>

\* lines 50-57
CreateEvr ==
    /\ pc = "evr"
    /\ evr' = ExcludedVolumeRestraint(get_all_beads(chains))
    /\ pc' = "restraints"
    /\ UNCHANGED <<args, lib_resets, m, chains, h_root, restraints, rsf, bd,
                   rmf, sos, it, i, time_ns, T_ns, E, D, chains_on_iteration,
                   stdout, pickles, failed, prev>>

\* lines 60-68
AssembleRestraints ==
    /\ pc = "restraints"
    /\ restraints' = AssembledRestraints(chains, evr)
    /\ pc' = "rsf"
    /\ UNCHANGED <<args, lib_resets, m, chains, h_root, evr, rsf, bd, rmf,
                   sos, it, i, time_ns, T_ns, E, D, chains_on_iteration,
                   stdout, pickles, failed, prev>>

\* lines 70-71
CreateScoringFunction ==
    /\ pc = "rsf"
    /\ rsf' = [restraints |-> restraints]
    /\ pc' = "start_bd"
    /\ UNCHANGED <<args, lib_resets, m, chains, h_root, evr, restraints, bd,
                   rmf, sos, it, i, time_ns, T_ns, E, D, chains_on_iteration,
                   stdout, pickles, failed, prev>>

\* line 73, lines 83-90
start_bd_simulation ==
    /\ pc = "start_bd"
    /\ bd' = [scoring_function |-> rsf, maximum_time_step |-> bd_step_size_fs,
              temperature |-> 300, current_time |-> 0, last_score_at |-> 0,
              calls |-> 0, optimizer_states |-> 0]
    /\ pc' = "create_rmf"
    /\ UNCHANGED <<args, lib_resets, m, chains, h_root, evr, restraints, rsf,
                   rmf, sos, it, i, time_ns, T_ns, E, D, chains_on_iteration,
                   stdout, pickles, failed, prev>>

\* lines 104-113
CreateRmf ==
    /\ pc = "create_rmf"
    /\ rmf' = [hierarchy |-> h_root, restraints |-> restraints,
               geometry |-> args.sphere_radius, initial |-> 0, frames |-> 0,
               flushed |-> FALSE]
    /\ pc' = "sos"
    /\ UNCHANGED <<args, lib_resets, m, chains, h_root, evr, restraints, rsf,
                   bd, sos, it, i, time_ns, T_ns, E, D, chains_on_iteration,
                   stdout, pickles, failed, prev>>

\* line 104 raising (the file cannot be created)
CreateRmfFails ==
    /\ pc = "create_rmf"
    /\ failed' = TRUE
    /\ pc' = OnFailure(pc)
    /\ UNCHANGED <<args, lib_resets, m, chains, h_root, evr, restraints, rsf,
                   bd, rmf, sos, it, i, time_ns, T_ns, E, D,
                   chains_on_iteration, stdout, pickles, prev>>

\* lines 115-120
AttachSos ==
    /\ pc = "sos"
    /\ sos' = [simulator |-> "bd", period |-> frames_interval, call_number |-> 0]
    /\ bd' = [bd EXCEPT !.optimizer_states = @ + 1]
    /\ pc' = "initial"
    /\ UNCHANGED <<args, lib_resets, m, chains, h_root, evr, restraints, rsf,
                   rmf, it, i, time_ns, T_ns, E, D, chains_on_iteration,
                   stdout, pickles, failed, prev>>

\* lines 121-122, then the series of lines 131-136
SaveInitial ==
    /\ pc = "initial"
    /\ rmf' = [rmf EXCEPT !.initial = @ + 1]
    /\ T_ns' = <<>>
    /\ E' = <<>>
    /\ D' = [c \in 1..Len(chains) |-> <<>>]
    /\ chains_on_iteration' = <<>>
    /\ pc' = "loop"
    /\ UNCHANGED <<args, lib_resets, m, chains, h_root, evr, restraints, rsf,
                   bd, sos, it, i, time_ns, stdout, pickles, failed, prev>>

\* lines 138-142: the loop takes its next value, reads the clock, prints
LoopHead ==
    /\ pc = "loop"
    /\ LET v == LoopValue(it, i)
           t == NsOfFs(bd.current_time)
       IN  /\ v < n_outer
           /\ i' = v
           /\ it' = v + 1
           /\ time_ns' = t
           /\ stdout' = IF v % (n_outer \div 10) = 0
                        THEN Append(stdout, [kind |-> "so far", at |-> Fmt1(t)])
                        ELSE stdout
    /\ pc' = "optimize"
    /\ UNCHANGED <<args, lib_resets, m, chains, h_root, evr, restraints, rsf,
                   bd, rmf, sos, T_ns, E, D, chains_on_iteration, pickles,
                   failed, prev>>

\* line 143: n_inner steps of the integrator; the attached optimizer state
\* is updated once per step and writes a frame whenever its call counter
\* reaches a multiple of its period
Optimize ==
    /\ pc = "optimize"
    /\ LET start == IF lib_resets THEN 0 ELSE sos.call_number
           t == bd.current_time + n_inner * bd.maximum_time_step
           written == ((start + n_inner) \div sos.period) - (start \div sos.period)
       IN  /\ bd' = [bd EXCEPT !.current_time = t, !.last_score_at = t,
                               !.calls = @ + 1]
           /\ sos' = [sos EXCEPT !.call_number = start + n_inner]
           /\ rmf' = [rmf EXCEPT !.frames = @ + written]
    /\ pc' = "sample"
    /\ UNCHANGED <<args, lib_resets, m, chains, h_root, evr, restraints, rsf,
                   it, i, time_ns, T_ns, E, D, chains_on_iteration, stdout,
                   pickles, failed, prev>>

\* line 143 raising
OptimizeFails ==
    /\ pc = "optimize"
    /\ bd' = [bd EXCEPT !.calls = @ + 1]
    /\ failed' = TRUE
    /\ pc' = OnFailure(pc)
    /\ UNCHANGED <<args, lib_resets, m, chains, h_root, evr, restraints, rsf,
                   rmf, sos, it, i, time_ns, T_ns, E, D, chains_on_iteration,
                   stdout, pickles, prev>>

\* lines 144-150
Sample ==
    /\ pc = "sample"
    /\ T_ns' = Append(T_ns, time_ns)
    /\ E' = Append(E, get_last_score(bd))
    /\ D' = AppendDistances(D, chains, 0, bd.current_time)
    /\ i' = IF chains = <<>> THEN i ELSE Len(chains) - 1
    /\ chains_on_iteration' =
           Append(chains_on_iteration,
                  generate_vecs_of_beads(chains, bd.current_time))
    /\ pc' = "loop"
    /\ UNCHANGED <<args, lib_resets, m, chains, h_root, evr, restraints, rsf,
                   bd, rmf, sos, it, time_ns, stdout, pickles, failed, prev>>

\* line 152, once range(n_outer) is exhausted
LoopExit ==
    /\ pc = "loop"
    /\ LoopValue(it, i) >= n_outer
    /\ stdout' = Append(stdout, [kind |-> "FINISHED", at |-> Fmt1(time_ns)])
    /\ pc' = "flush"
    /\ UNCHANGED <<args, lib_resets, m, chains, h_root, evr, restraints, rsf,
                   bd, rmf, sos, it, i, time_ns, T_ns, E, D,
                   chains_on_iteration, pickles, failed, prev>>

\* line 154
Flush ==
    /\ pc = "flush"
    /\ rmf' = [rmf EXCEPT !.flushed = TRUE]
    /\ pc' = "pickle"
    /\ UNCHANGED <<args, lib_resets, m, chains, h_root, evr, restraints, rsf,
                   bd, sos, it, i, time_ns, T_ns, E, D, chains_on_iteration,
                   stdout, pickles, failed, prev>>

\* line 154 raising
FlushFails ==
    /\ pc = "flush"
    /\ failed' = TRUE
    /\ pc' = OnFailure(pc)
    /\ UNCHANGED <<args, lib_resets, m, chains, h_root, evr, restraints, rsf,
                   bd, rmf, sos, it, i, time_ns, T_ns, E, D,
                   chains_on_iteration, stdout, pickles, prev>>

\* lines 155-173: the next of the four create_pickle_from_array calls
WritePickle ==
    /\ pc = "pickle"
    /\ Len(pickles) < Len(PickleKinds)
    /\ LET k == Len(pickles) + 1
           data == CASE k = 1 -> T_ns [] k = 2 -> E [] k = 3 -> D
                     [] k = 4 -> chains_on_iteration
       IN  pickles' = Append(pickles,
               [path |-> PicklePath("cwd",
                            PickleFileName(PickleKinds[k], args.k_out,
                                           args.sphere_radius)),
                data |-> data])
    /\ UNCHANGED <<pc, args, lib_resets, m, chains, h_root, evr, restraints,
                   rsf, bd, rmf, sos, it, i, time_ns, T_ns, E, D,
                   chains_on_iteration, stdout, failed, prev>>

\* lines 175 and 80
Return ==
    /\ pc = "pickle"
    /\ Len(pickles) = Len(PickleKinds)
    /\ pc' = "returned"
    /\ UNCHANGED <<args, lib_resets, m, chains, h_root, evr, restraints, rsf,
                   bd, rmf, sos, it, i, time_ns, T_ns, E, D,
                   chains_on_iteration, stdout, pickles, failed, prev>>

PathsOf(ps) == [k \in 1..Len(ps) |-> ps[k].path]

\* create_model is called again, with other arguments (a parameter sweep);
\* the files of the call before stay in the working directory
CallAgain ==
    /\ pc = "returned"
    /\ prev' = [k_out |-> args.k_out, sphere_radius |-> args.sphere_radius,
                nchains |-> args.nchains, paths |-> PathsOf(pickles)]
    /\ \E a \in Args : Fresh(a)
    /\ UNCHANGED lib_resets

Next ==
    \/ CreateChain
    \/ SetupHierarchy
    \/ CreateEvr
    \/ AssembleRestraints
    \/ CreateScoringFunction
    \/ start_bd_simulation
    \/ CreateRmf
    \/ CreateRmfFails
    \/ AttachSos
    \/ SaveInitial
    \/ LoopHead
    \/ Optimize
    \/ OptimizeFails
    \/ Sample
    \/ LoopExit
    \/ Flush
    \/ FlushFails
    \/ WritePickle
    \/ Return
    \/ CallAgain

Spec == Init /\ [][Next]_vars

\* ---------------------------------------------------------------- claims
AllBeads == UNION {Range(chains[c].beads) : c \in 1..Len(chains)}

EachBeadOnce(list) ==
    /\ Range(list) = AllBeads
    /\ \A b \in AllBeads : Count(list, b) = 1

OfKind(kind) == SelectSeq(restraints, LAMBDA r : r.kind = kind)

\* C1: bd.optimize(n_inner) is called exactly n_outer times and then no
\* more; on return T_ns, E, chains_on_iteration and every row of D hold
\* exactly n_outer samples; the inner loop's reuse of i changes neither the
\* number of outer iterations nor the row of D a chain's distance goes to.
C1_SampleCount ==
    /\ bd # NoneVal => bd.calls <= n_outer
    /\ pc \in {"flush", "pickle", "returned"} => bd.calls = n_outer
    /\ pc = "returned" =>
          /\ Len(T_ns) = n_outer
          /\ Len(E) = n_outer
          /\ Len(chains_on_iteration) = n_outer
          /\ Len(D) = args.nchains
          /\ \A c \in 1..Len(D) : Len(D[c]) = n_outer
    /\ \A c \in 1..Len(D) : \A k \in 1..Len(D[c]) :
          /\ D[c][k].first = chains[c].beads[1]
          /\ D[c][k].last = chains[c].beads[Len(chains[c].beads)]

C1_Witness ==
    /\ pc = "returned"
    /\ args.nchains = 2
    /\ Len(D[2]) = n_outer
    /\ i = 1

\* C2: every coordinate snapshot is per chain and per bead: entry [c] has
\* exactly as many elements as chain c has beads, and entry [c][j] is the
\* coordinates of bead j of chain c.
C2_PerChainSnapshot ==
    \A k \in 1..Len(chains_on_iteration) :
        LET snap == chains_on_iteration[k]
        IN  /\ Len(snap) = Len(chains)
            /\ \A c \in 1..Len(snap) :
                  /\ Len(snap[c]) = Len(chains[c].beads)
                  /\ \A j \in 1..Len(snap[c]) :
                        snap[c][j].bead = chains[c].beads[j]

\* C3: every bead belongs to exactly one chain; get_all_beads returns each
\* bead of every chain exactly once; the excluded-volume restraint and the
\* bounding-sphere restraint each range over all beads of all chains.
C3_AllBeads ==
    /\ \A b \in AllBeads :
          Cardinality({c \in 1..Len(chains) : b \in Range(chains[c].beads)}) = 1
    /\ \A c \in 1..Len(chains) :
          Cardinality(Range(chains[c].beads)) = Len(chains[c].beads)
    /\ EachBeadOnce(get_all_beads(chains))
    /\ evr # NoneVal => EachBeadOnce(evr.particles)
    /\ restraints # <<>> =>
          /\ Len(OfKind("excluded-volume")) = 1
          /\ EachBeadOnce(OfKind("excluded-volume")[1].particles)
          /\ Len(OfKind("bounding-sphere")) = 1
          /\ EachBeadOnce(OfKind("bounding-sphere")[1].particles)

C3_Witness ==
    /\ rsf # NoneVal
    /\ Len(chains) = 2
    /\ Cardinality(AllBeads) = 4
    /\ Len(OfKind("bounding-sphere")[1].particles) = 4

\* C4: the restraint list of the scoring function is exactly one
\* connectivity restraint per chain, one excluded-volume restraint, one
\* inter-chain restraint per ordered pair of distinct chains and none for a
\* chain with itself, and one bounding-sphere restraint; the trajectory file
\* registers that same list.
C4_RestraintList ==
    rsf # NoneVal =>
        LET n == Len(chains)
            labels == 0..(n - 1)
        IN  /\ n = args.nchains
            /\ rsf.restraints = restraints
            /\ \A c \in 1..n :
                  Count(restraints, chains[c].restraint) = 1
            /\ Len(OfKind("connectivity")) = n
            /\ Len(OfKind("excluded-volume")) = 1
            /\ Len(OfKind("bounding-sphere")) = 1
            /\ Len(OfKind("interchain")) = n * (n - 1)
            /\ \A a \in labels : \A b \in labels :
                  Cardinality({k \in 1..Len(restraints) :
                                  /\ restraints[k].kind = "interchain"
                                  /\ restraints[k].chains = <<a, b>>})
                     = IF a = b THEN 0 ELSE 1
            /\ Len(restraints) = n + 1 + n * (n - 1) + 1
            /\ (n = 1 => OfKind("interchain") = <<>>)
            /\ rmf # NoneVal => rmf.restraints = restraints

C4_Witness ==
    /\ pc = "returned"
    /\ args.nchains = 2
    /\ Len(OfKind("interchain")) = 2
    /\ rmf.restraints = rsf.restraints

\* C5: chains are all built before any restraint exists; the restraints are
\* all assembled before the integrator gets its scoring function; the
\* integrator is configured and the initial conformation saved before the
\* first bd.optimize; each iteration advances and then samples; the flush
\* and, after it, the pickle writes come only after the last iteration.
C5_PhaseOrder ==
    LET n == args.nchains IN
    /\ (h_root # NoneVal \/ evr # NoneVal \/ restraints # <<>>) =>
          Len(chains) = n
    /\ rsf # NoneVal =>
          /\ evr # NoneVal
          /\ Len(restraints) = n + 1 + n * (n - 1) + 1
    /\ bd # NoneVal =>
          /\ rsf # NoneVal
          /\ bd.scoring_function = rsf
          /\ Len(E) <= bd.calls
          /\ bd.calls <= Len(E) + 1
          /\ (bd.calls = Len(E) + 1) => pc \in {"sample", "raised"}
          /\ (bd.calls > 0) =>
                /\ bd.maximum_time_step = bd_step_size_fs
                /\ bd.temperature = 300
                /\ rmf # NoneVal
                /\ rmf.initial = 1
                /\ sos # NoneVal
                /\ bd.optimizer_states = 1
    /\ rmf # NoneVal =>
          (rmf.flushed => (bd.calls = n_outer /\ Len(E) = n_outer))
    /\ pickles # <<>> => (rmf # NoneVal /\ rmf.flushed)
    /\ (rmf = NoneVal \/ bd = NoneVal) =>
          (pickles = <<>> /\ E = <<>> /\ T_ns = <<>>)

C5_Witness ==
    /\ pc = "returned"
    /\ rmf.flushed
    /\ Len(pickles) = 4
    /\ bd.calls = n_outer

\* C6: once a library call has raised, control is outside create_model (no
\* handler, no retry), no statistics pickle has been written, and no
\* further bd.optimize call is made.
C6_Propagates ==
    /\ [](failed => (pc = "raised" /\ pickles = <<>>))
    /\ [][failed => (failed' /\ bd' = bd /\ pickles' = pickles /\ pc' = pc)]_vars

C6_Witness ==
    /\ failed
    /\ pc = "raised"
    /\ bd # NoneVal
    /\ bd.calls > 1
    /\ Len(E) = bd.calls - 1

\* C7: a completed call has written exactly four pickle files with four
\* different names; the names depend only on the series kind and on k_out
\* and sphere_radius rendered with three decimals, so a call whose k_out
\* and sphere_radius agree to three decimals with the call before writes the
\* same four names.
C7_FileNames ==
    pc = "returned" =>
        /\ Len(pickles) = 4
        /\ \A j \in 1..4 : \A k \in 1..4 :
              j # k => pickles[j].path # pickles[k].path
        /\ (/\ prev # NoneVal
            /\ Fmt3(prev.k_out) = Fmt3(args.k_out)
            /\ Fmt3(prev.sphere_radius) = Fmt3(args.sphere_radius))
              => PathsOf(pickles) = prev.paths

C7_Witness ==
    /\ pc = "returned"
    /\ prev # NoneVal
    /\ prev.k_out # args.k_out
    /\ prev.nchains # args.nchains
    /\ Fmt3(prev.k_out) = Fmt3(args.k_out)
    /\ Fmt3(prev.sphere_radius) = Fmt3(args.sphere_radius)
    /\ PathsOf(pickles) = prev.paths

\* C8: sample k is consistent: T_ns[k] is the integrator time of the state
\* at which E[k], D[c][k] and chains_on_iteration[k] were measured.
C8_ConsistentSample ==
    \A k \in 1..Len(chains_on_iteration) :
        /\ T_ns[k] = NsOfFs(E[k].at)
        /\ \A c \in 1..Len(D) : T_ns[k] = NsOfFs(D[c][k].at)
        /\ \A c \in 1..Len(chains_on_iteration[k]) :
              \A j \in 1..Len(chains_on_iteration[k][c]) :
                  T_ns[k] = NsOfFs(chains_on_iteration[k][c][j].at)

\* C9: the time shown by the FINISHED line is the integrator's current time
\* after the last outer iteration.
C9_FinalTime ==
    \A k \in 1..Len(stdout) :
        stdout[k].kind = "FINISHED" =>
            stdout[k].at = Fmt1(NsOfFs(bd.current_time))

=============================================================================
